---------------------------- MODULE Spec2Model ----------------------------
(***************************************************************************)
(* A model of verifai/samplers/domain_sampler.py: the sample / feedback /  *)
(* update protocol of DomainSampler, its lazy-sequence view, the           *)
(* generator-driven IteratorSampler, and the composite SplitSampler with   *)
(* its construction from a predicate partition.                            *)
(*                                                                         *)
(* Python values are modelled as tuples so that any two of them can be     *)
(* compared: None is the empty tuple, every sample, info and feedback      *)
(* value is a non-empty tuple.  Each driver call is one action; the calls  *)
(* a handler makes on other objects (update, getSample, rejoinPoints) are  *)
(* recorded, in the order the code makes them, in the variable trace.      *)
(***************************************************************************)
EXTENDS Integers, Sequences, FiniteSets, TLC

\* ------------------------------------------------------------------ bounds
\* Number of driver calls explored per run.
MaxCalls == 3

\* ------------------------------------------------------------------ values
NoneV == <<>>
\* last_info is not assigned by DomainSampler.__init__: the attribute is absent.
Unset == <<"unset">>
Feedback == {NoneV, <<"f1">>, <<"f2">>}
Samples == {<<"s1">>, <<"s2">>}
Infos == {NoneV, <<"i1">>}

\* One instrumented call: ev is the method, who the callee (0 = the sampler
\* itself, i >= 1 = its i-th child), s/i the sample and info passed or
\* returned, x the feedback passed (update) or the outcome (getSample).
Ev(ev, who, s, i, x) == [ev |-> ev, who |-> who, s |-> s, i |-> i, x |-> x]

\* What a driver call gave back: out is "ret" or the exception's name.
Res(out, sample, info) == [out |-> out, sample |-> sample, info |-> info]
NoResult == Res("none", NoneV, NoneV)

VARIABLES
    calls,        \* number of driver calls made so far
    feedback,     \* the argument of the most recent driver call
    trace,        \* the calls the most recent driver call made, in order
    result,       \* what the most recent nextSample call gave back
    prev,         \* what the nextSample call before that gave back
    lastRet,      \* the most recent pair returned before the most recent call
    timesUpdated, \* how often update was called with the pair that was stored
                  \* when the most recent call began, that call included
    last_sample,  \* DomainSampler.last_sample
    last_info,    \* DomainSampler.last_info
    it,           \* the generator made by DomainSampler.__iter__
    seen,         \* what the driver of that generator saw at its last step
    repeat,       \* IteratorSampler.repeat
    body,         \* the values the subclass's __iter__ body yields, in order
    iterator,     \* IteratorSampler.iterator: the generator over body
    samplers,     \* SplitSampler.samplers: the children, in construction order
    produced,     \* per child, how many samples it has produced
    built         \* the outcome of the most recent construction

obsVars == <<calls, feedback, trace, result, prev, lastRet, timesUpdated>>
fieldVars == <<last_sample, last_info>>
lazyVars == <<it, seen>>
iterVars == <<repeat, body, iterator>>
splitVars == <<samplers, produced>>
vars == <<calls, feedback, trace, result, prev, lastRet, timesUpdated,
          last_sample, last_info, it, seen,
          repeat, body, iterator, samplers, produced, built>>

\* ------------------------------------------------- DomainSampler (abstract)
\* DomainSampler.__init__: last_sample = None, last_info left unassigned.
DomainSamplerInit ==
    /\ last_sample = NoneV
    /\ last_info = Unset

\* The default update is a no-op; the model records that it was called.
DomainSampler_update(sample, info, rho) ==
    << Ev("update", 0, sample, info, rho) >>

\* getSample of a leaf strategy: it returns some pair, or signals one of the
\* two sampling conditions, or raises another exception (the abstract
\* getSample raises NotImplementedError).
GetOutcomes ==
    {[out |-> "ret", sample |-> s, info |-> i,
      trace |-> << Ev("getSample", 0, s, i, "ret") >>] : s \in Samples, i \in Infos}
    \cup
    {[out |-> e, sample |-> NoneV, info |-> NoneV,
      trace |-> << Ev("getSample", 0, NoneV, NoneV, e) >>] :
        e \in {"SamplingError", "TerminationException", "NotImplementedError"}}

\* if self.last_sample is not None and feedback is not None
UpdateGuard(ls, fb) == ls # NoneV /\ fb # NoneV

\* DomainSampler.nextSample, given the events upd that self.update makes
\* when called and the outcome g of self.getSample.
\* (a variant that produces before it updates)
nextSampleProduceFirst(ls, li, fb, upd, g) ==
    LET tr == g.trace \o (IF UpdateGuard(ls, fb) THEN upd ELSE <<>>)
    IN  IF g.out = "ret"
        THEN [out |-> "ret", sample |-> g.sample, info |-> g.info,
              last_sample |-> g.sample, last_info |-> g.info, trace |-> tr,
              updated |-> UpdateGuard(ls, fb)]
        ELSE [out |-> g.out, sample |-> NoneV, info |-> NoneV,
              last_sample |-> ls, last_info |-> li, trace |-> tr,
              updated |-> UpdateGuard(ls, fb)]
\* (a variant that forgets the stored pair when getSample raises)
nextSampleClearOnFail(ls, li, fb, upd, g) ==
    LET tr == (IF UpdateGuard(ls, fb) THEN upd ELSE <<>>) \o g.trace
    IN  IF g.out = "ret"
        THEN [out |-> "ret", sample |-> g.sample, info |-> g.info,
              last_sample |-> g.sample, last_info |-> g.info, trace |-> tr,
              updated |-> UpdateGuard(ls, fb)]
        ELSE [out |-> g.out, sample |-> NoneV, info |-> NoneV,
              last_sample |-> NoneV, last_info |-> NoneV, trace |-> tr,
              updated |-> UpdateGuard(ls, fb)]
nextSample(ls, li, fb, upd, g) ==
    LET tr == (IF UpdateGuard(ls, fb) THEN upd ELSE <<>>) \o g.trace
    IN  IF g.out = "ret"
        THEN [out |-> "ret", sample |-> g.sample, info |-> g.info,
              last_sample |-> g.sample, last_info |-> g.info, trace |-> tr,
              updated |-> UpdateGuard(ls, fb)]
        ELSE [out |-> g.out, sample |-> NoneV, info |-> NoneV,
              last_sample |-> ls, last_info |-> li, trace |-> tr,
              updated |-> UpdateGuard(ls, fb)]

\* What the driver observes of one nextSample call that gave r.
Observe(fb, r) ==
    /\ calls' = calls + 1
    /\ feedback' = fb
    /\ trace' = r.trace
    /\ result' = Res(r.out, r.sample, r.info)
    /\ prev' = result
    /\ lastRet' = IF result.out = "ret" THEN result ELSE lastRet

\* The most recent call stored the pair it returned (nextVector stores nothing).
Replaced ==
    result.out = "ret" /\ (trace = <<>> \/ trace[1].ev # "nextVector")

\* One more call that did, or did not, call self.update with the stored pair.
CountUpdate(updated) ==
    timesUpdated' = (IF Replaced THEN 0 ELSE timesUpdated)
                    + (IF updated THEN 1 ELSE 0)

ObsInit ==
    /\ timesUpdated = 0
    /\ calls = 0
    /\ feedback = NoneV
    /\ trace = <<>>
    /\ result = NoResult
    /\ prev = NoResult
    /\ lastRet = NoResult

\* The generator of DomainSampler.__iter__ before its first step.
LazyInit ==
    /\ it = [status |-> "unstarted", why |-> "none"]
    /\ seen = "none"

\* A driver calls sampler.nextSample(fb) on a concrete leaf sampler.
NextSampleCall ==
    /\ calls < MaxCalls
    /\ \E fb \in Feedback, g \in GetOutcomes :
         LET r == nextSample(last_sample, last_info, fb,
                             DomainSampler_update(last_sample, last_info, fb), g)
         IN  /\ last_sample' = r.last_sample
             /\ last_info' = r.last_info
             /\ Observe(fb, r)
             /\ CountUpdate(r.updated)
    /\ UNCHANGED <<lazyVars, iterVars, splitVars, built>>

\* The parts of the state a specification does not use.
FreshIterator == [status |-> "unstarted", pos |-> 0]
NoIterator ==
    /\ repeat = FALSE
    /\ body = <<>>
    /\ iterator = FreshIterator
NotBuilt == [how |-> "none", status |-> "none"]
NoComposite ==
    /\ samplers = <<>>
    /\ produced = <<>>
    /\ built = NotBuilt

InitBase == ObsInit /\ DomainSamplerInit /\ LazyInit /\ NoIterator /\ NoComposite
NextBase == NextSampleCall
SpecBase == InitBase /\ [][NextBase]_vars

\* ------------------------------------------- DomainSampler.__iter__ (lazy view)
\* feedback = None before the first step; feedback = yield ... afterwards.
LazyFeedback(status, v) == IF status = "unstarted" THEN NoneV ELSE v

\* try: ... yield self.nextSample(feedback) ... except TerminationException:
\* return.  What the driver of the generator sees for an outcome of nextSample.
\* (a variant whose except clause catches every exception)
LazySeenCatchAll(out) ==
    IF out = "ret" THEN "yield" ELSE "StopIteration"
LazySeen(out) ==
    CASE out = "ret" -> "yield"
      [] out = "TerminationException" -> "StopIteration"
      [] OTHER -> out

\* The generator after a step whose nextSample call gave out: it stays
\* suspended at the yield, or it has finished (by return or by the exception).
LazyAfter(out) ==
    IF out = "ret" THEN [status |-> "suspended", why |-> "none"]
    ELSE [status |-> "done", why |-> out]

\* A driver resumes the generator with value v (next(g) is g.send(None)).
IterSend ==
    /\ calls < MaxCalls
    /\ \E v \in Feedback, g \in GetOutcomes :
         IF it.status = "done"
         THEN \* a finished generator raises StopIteration and runs no code
              /\ seen' = "StopIteration"
              /\ calls' = calls + 1 /\ feedback' = v /\ trace' = <<>>
              /\ result' = NoResult /\ prev' = result
              /\ UNCHANGED <<lastRet, timesUpdated, it, last_sample, last_info>>
         ELSE IF it.status = "unstarted" /\ v # NoneV
         THEN \* Python refuses a non-None value for a just-started generator
              /\ seen' = "TypeError"
              /\ calls' = calls + 1 /\ feedback' = v /\ trace' = <<>>
              /\ result' = NoResult /\ prev' = result
              /\ UNCHANGED <<lastRet, timesUpdated, it, last_sample, last_info>>
         ELSE LET fb == LazyFeedback(it.status, v)
                  r == nextSample(last_sample, last_info, fb,
                          DomainSampler_update(last_sample, last_info, fb), g)
              IN  /\ last_sample' = r.last_sample
                  /\ last_info' = r.last_info
                  /\ Observe(fb, r)
                  /\ CountUpdate(r.updated)
                  /\ seen' = LazySeen(r.out)
                  /\ it' = LazyAfter(r.out)
    /\ UNCHANGED <<iterVars, splitVars, built>>

InitLazy == ObsInit /\ DomainSamplerInit /\ LazyInit /\ NoIterator /\ NoComposite
NextLazy == IterSend
SpecLazy == InitLazy /\ [][NextLazy]_vars

\* ------------------------------------------------------------ IteratorSampler
\* Longest sequence body explored.
MaxLen == 2

\* The sequence bodies a subclass may supply: finite sequences of samples
\* (a body that yields nothing included).
RECURSIVE SeqsUpTo(_, _)
SeqsUpTo(S, n) ==
    IF n = 0 THEN {<<>>}
    ELSE LET shorter == SeqsUpTo(S, n - 1)
         IN  shorter \cup {Append(q, x) : q \in {t \in shorter : Len(t) = n - 1}, x \in S}
Bodies == SeqsUpTo(Samples, MaxLen)

\* generator.send(v) on the generator gen over body b, as Python defines it:
\* a finished generator raises StopIteration; a just-started one accepts only
\* None; otherwise the body resumes (receiving v at the yield it is suspended
\* at) and runs to its next yield or to its end.  got is what the body
\* received at the yield it resumed from.
GenSend(b, gen, v) ==
    IF gen.status = "done"
    THEN [out |-> "StopIteration", value |-> NoneV, gen |-> gen, got |-> <<>>]
    ELSE IF gen.status = "unstarted" /\ v # NoneV
    THEN [out |-> "TypeError", value |-> NoneV, gen |-> gen, got |-> <<>>]
    ELSE LET got == IF gen.status = "suspended" THEN <<v>> ELSE <<>>
         IN  IF gen.pos < Len(b)
             THEN [out |-> "yield", value |-> b[gen.pos + 1],
                   gen |-> [status |-> "suspended", pos |-> gen.pos + 1],
                   got |-> got]
             ELSE [out |-> "StopIteration", value |-> NoneV,
                   gen |-> [status |-> "done", pos |-> gen.pos], got |-> got]

\* The event recorded for one send: s the value yielded, i what the body
\* received when it resumed, x how the send ended.
SendEv(r) == Ev("send", 0, r.value, r.got, r.out)

\* How one send that did not end in a caught StopIteration leaves nextSample.
SendResult(r, tr) ==
    [out |-> IF r.out = "yield" THEN "ret" ELSE r.out,
     sample |-> r.value, info |-> NoneV, iterator |-> r.gen, trace |-> tr]

\* IteratorSampler.nextSample: send the feedback to the generator; when it is
\* exhausted either start the body again and send the same feedback to the new
\* generator, or raise TerminationException.
IteratorSampler_nextSample(rep, b, gen, fb) ==
    LET r1 == GenSend(b, gen, fb)
    IN  IF r1.out # "StopIteration"
        THEN SendResult(r1, << SendEv(r1) >>)
        ELSE IF rep
        THEN LET r2 == GenSend(b, FreshIterator, fb)
             IN  SendResult(r2, << SendEv(r1), SendEv(r2) >>)
        ELSE [out |-> "TerminationException", sample |-> NoneV, info |-> NoneV,
              iterator |-> r1.gen, trace |-> << SendEv(r1) >>]

\* IteratorSampler.__init__ of a subclass with some body and repeat setting.
IteratorSamplerInit ==
    /\ repeat \in BOOLEAN
    /\ body \in Bodies
    /\ iterator = FreshIterator

\* A driver calls nextSample(fb) on the IteratorSampler.
IteratorNextSampleCall ==
    /\ calls < MaxCalls
    /\ \E fb \in Feedback :
         LET r == IteratorSampler_nextSample(repeat, body, iterator, fb)
         IN  /\ iterator' = r.iterator
             /\ Observe(fb, r)
    /\ UNCHANGED <<timesUpdated, repeat, body, fieldVars, lazyVars, splitVars, built>>

InitIter == ObsInit /\ DomainSamplerInit /\ LazyInit /\ IteratorSamplerInit /\ NoComposite
NextIter == IteratorNextSampleCall
SpecIter == InitIter /\ [][NextIter]_vars

\* ------------------------------------------------------------------- Domain
\* Number of atomic parts of the largest domain explored.
NAtoms == 2
Atoms == 1..NAtoms

\* A domain is the set of its atomic parts; it is false (empty) in a boolean
\* context exactly when it has none.  A predicate is the set of atoms it holds of.
Truthy(dom) == dom # {}
\* domain.partition(predicate) -> (matched region, remaining region)
DomainPartition(dom, predicate) == << dom \cap predicate, dom \ predicate >>
\* domain.rejoinPoints(*parts) -> one point of the whole domain
RejoinPoints(parts) == <<"joined", parts>>

\* --------------------------------------------------------------- SplitSampler
\* Largest number of children of a directly constructed SplitSampler.
MaxChildren == 2

\* The kinds of sub-sampler a factory can make: "box" is a concrete strategy
\* that implements getSample; "iterator" is an IteratorSampler subclass that
\* supplies only the sequence body __iter__, so that its getSample is the
\* abstract DomainSampler.getSample.
Kinds == {"box", "iterator"}
Sampler(kind, dom) == [kind |-> kind, domain |-> dom]
\* None, where a sampler could stand (an empty slot of samplersForPredicates).
NoSampler == Sampler("None", {})

\* What a child's getSample does at one call: a "box" child returns its next
\* sample with an info ("info") or with info None ("noinfo"), or signals a
\* sampling condition; the abstract getSample raises NotImplementedError.
Choices == {"info", "noinfo", "SamplingError", "TerminationException"}
ChoicesOf(kind) == IF kind = "iterator" THEN {"abstract"} ELSE Choices
ChildOut(kind, choice) ==
    IF kind = "iterator" THEN "NotImplementedError"
    ELSE IF choice \in {"info", "noinfo"} THEN "ret" ELSE choice

\* The runs of the loop of getSample over the children ss: one choice per
\* child called, the children after a child that raises not being called.
RECURSIVE ChoiceRuns(_, _)
ChoiceRuns(ss, i) ==
    IF i > Len(ss) THEN {<<>>}
    ELSE UNION {IF ChildOut(ss[i].kind, c) = "ret"
                THEN {<<c>> \o rest : rest \in ChoiceRuns(ss, i + 1)}
                ELSE {<<c>>} : c \in ChoicesOf(ss[i].kind)}
ChildSample(i, k) == <<"part", i, k>>
ChildInfo(i, k, choice) == IF choice = "info" THEN <<"info", i, k>> ELSE NoneV

\* SplitSampler.getSample: the loop over self.samplers from child i on, with
\* the samples and infos collected so far; then rejoinPoints.  An exception of
\* a child's getSample leaves the loop and the method.
RECURSIVE SplitLoop(_, _, _, _, _, _, _)
SplitLoop(ss, prod, choice, i, samples, infos, tr) ==
    IF i > Len(ss)
    THEN LET whole == RejoinPoints(samples)
         IN  [out |-> "ret", sample |-> whole, info |-> infos, produced |-> prod,
              trace |-> Append(tr, Ev("rejoinPoints", 0, samples, NoneV, "ret"))]
    ELSE LET out == ChildOut(ss[i].kind, choice[i])
             k == prod[i] + 1
         IN  IF out = "ret"
             THEN SplitLoop(ss, [prod EXCEPT ![i] = k], choice, i + 1,
                      Append(samples, ChildSample(i, k)),
                      Append(infos, ChildInfo(i, k, choice[i])),
                      Append(tr, Ev("getSample", i, ChildSample(i, k),
                                    ChildInfo(i, k, choice[i]), "ret")))
             ELSE [out |-> out, sample |-> NoneV, info |-> NoneV, produced |-> prod,
                   trace |-> Append(tr, Ev("getSample", i, NoneV, NoneV, out))]

\* (variants: one that leaves out the first child, one that reports a
\* child's TerminationException as a SamplingError)
SplitSampler_getSampleSkipFirst(ss, prod, choice) ==
    SplitLoop(ss, prod, choice, 2, <<>>, <<>>, <<>>)
SplitSampler_getSampleConvert(ss, prod, choice) ==
    LET r == SplitLoop(ss, prod, choice, 1, <<>>, <<>>, <<>>)
    IN  IF r.out = "TerminationException"
        THEN [r EXCEPT !.out = "SamplingError"] ELSE r
SplitSampler_getSample(ss, prod, choice) ==
    SplitLoop(ss, prod, choice, 1, <<>>, <<>>, <<>>)

Min(a, b) == IF a < b THEN a ELSE b

\* SplitSampler.update: for sampler, i in zip(self.samplers, info): if i is
\* not None: sampler.update(sample, i, rho).  The children's update events.
RECURSIVE UpdateLoop(_, _, _, _, _)
UpdateLoop(ss, sample, info, rho, j) ==
    IF j > Min(Len(ss), Len(info)) THEN <<>>
    ELSE (IF info[j] # NoneV
          THEN << Ev("update", j, sample, info[j], rho) >>
          ELSE <<>>)
         \o UpdateLoop(ss, sample, info, rho, j + 1)

\* (a variant that pairs the children with the info entries in reverse)
SplitSampler_updateReversed(ss, sample, info, rho) ==
    LET n == Min(Len(ss), Len(info))
    IN  UpdateLoop(ss, sample, [j \in 1..n |-> info[n + 1 - j]], rho, 1)

\* (a variant that does not skip the children whose info entry is None)
SplitSampler_updateNoSkip(ss, sample, info, rho) ==
    [j \in 1..Min(Len(ss), Len(info)) |-> Ev("update", j, sample, info[j], rho)]
SplitSampler_update(ss, sample, info, rho) ==
    UpdateLoop(ss, sample, info, rho, 1)

\* ------------------------------------------------- SplitSampler.fromPartition
\* Longest predicate list explored.
MaxPreds == 2

\* One (predicate, makeSampler) pair: the factory makes a sampler of its kind
\* over the region it is given.
PartEntries == [pred : SUBSET Atoms, kind : Kinds]
Partitions == SeqsUpTo(PartEntries, MaxPreds)
\* defaultSampler: None, or a factory of some kind.
Defaults == Kinds \cup {"None"}

\* One call made during construction: remaining.partition(predicate i) on the
\* region arg, or factory i (0 = the default factory) on the region arg.
Made(op, i, arg) == [op |-> op, i |-> i, arg |-> arg]

\* (a variant of the loop that goes on after the remainder became empty)
RECURSIVE PartitionLoopNoBreak(_, _, _, _, _, _)
PartitionLoopNoBreak(partition, i, remaining, ss, sfp, log) ==
    IF i > Len(partition)
    THEN [remaining |-> remaining, samplers |-> ss, sfp |-> sfp, log |-> log]
    ELSE LET pr == DomainPartition(remaining, partition[i].pred)
             component == pr[1]
             sampler == Sampler(partition[i].kind, component)
             log1 == Append(log, Made("partition", i, remaining))
         IN  IF Truthy(component)
             THEN PartitionLoopNoBreak(partition, i + 1, pr[2], Append(ss, sampler),
                                       [sfp EXCEPT ![i] = sampler],
                                       Append(log1, Made("make", i, component)))
             ELSE PartitionLoopNoBreak(partition, i + 1, pr[2], ss, sfp, log1)

\* The for loop of fromPartition from predicate i on.
RECURSIVE PartitionLoop(_, _, _, _, _, _)
PartitionLoop(partition, i, remaining, ss, sfp, log) ==
    IF i > Len(partition)
    THEN [remaining |-> remaining, samplers |-> ss, sfp |-> sfp, log |-> log]
    ELSE LET pr == DomainPartition(remaining, partition[i].pred)
             component == pr[1]
             rest == pr[2]
             sampler == Sampler(partition[i].kind, component)
             log1 == Append(log, Made("partition", i, remaining))
             ss2 == IF Truthy(component) THEN Append(ss, sampler) ELSE ss
             sfp2 == IF Truthy(component) THEN [sfp EXCEPT ![i] = sampler] ELSE sfp
             log2 == IF Truthy(component)
                     THEN Append(log1, Made("make", i, component)) ELSE log1
         IN  IF ~Truthy(rest)
             THEN [remaining |-> rest, samplers |-> ss2, sfp |-> sfp2, log |-> log2]
             ELSE PartitionLoop(partition, i + 1, rest, ss2, sfp2, log2)

\* What a construction gave: status is "ok" or the exception's name.
Built(how, status, dom, partition, default, ss, sfp, log) ==
    [how |-> how, status |-> status, domain |-> dom, partition |-> partition,
     default |-> default, samplers |-> ss, samplersForPredicates |-> sfp,
     log |-> log]

\* (a variant without the assertion)
FinishUnasserted(dom, partition, default, ss, sfp, log) ==
    Built("fromPartition", "ok", dom, partition, default, ss, sfp, log)

\* assert len(samplers) > 0; sampler = cls(domain, samplers);
\* sampler.samplersForPredicates = tuple(samplersForPredicates)
Finish(dom, partition, default, ss, sfp, log) ==
    IF Len(ss) > 0
    THEN Built("fromPartition", "ok", dom, partition, default, ss, sfp, log)
    ELSE Built("fromPartition", "AssertionError", dom, partition, default,
               <<>>, <<>>, log)

\* (variants: one that does not record the default sampler's slot, one that
\* makes a default sampler instead of raising)
FromPartitionDefaultUnrecorded(dom, partition, default) ==
    LET l == PartitionLoop(partition, 1, dom, <<>>,
                           [i \in 1..Len(partition) |-> NoSampler], <<>>)
    IN  IF Truthy(l.remaining)
        THEN IF default = "None"
             THEN Built("fromPartition", "RuntimeError", dom, partition, default,
                        <<>>, <<>>, l.log)
             ELSE LET sampler == Sampler(default, l.remaining)
                  IN  Finish(dom, partition, default,
                             Append(l.samplers, sampler), l.sfp,
                             Append(l.log, Made("make", 0, l.remaining)))
        ELSE Finish(dom, partition, default, l.samplers, l.sfp, l.log)
FromPartitionDefaultAlways(dom, partition, default) ==
    LET l == PartitionLoop(partition, 1, dom, <<>>,
                           [i \in 1..Len(partition) |-> NoSampler], <<>>)
        d == IF default = "None" THEN "box" ELSE default
        sampler == Sampler(d, l.remaining)
    IN  Finish(dom, partition, default, Append(l.samplers, sampler),
               Append(l.sfp, sampler), Append(l.log, Made("make", 0, l.remaining)))
FromPartition(dom, partition, default) ==
    LET l == PartitionLoop(partition, 1, dom, <<>>,
                           [i \in 1..Len(partition) |-> NoSampler], <<>>)
    IN  IF Truthy(l.remaining)
        THEN IF default = "None"
             THEN Built("fromPartition", "RuntimeError", dom, partition, default,
                        <<>>, <<>>, l.log)
             ELSE LET sampler == Sampler(default, l.remaining)
                  IN  Finish(dom, partition, default,
                             Append(l.samplers, sampler), Append(l.sfp, sampler),
                             Append(l.log, Made("make", 0, l.remaining)))
        ELSE Finish(dom, partition, default, l.samplers, l.sfp, l.log)

\* fromPredicate: fromPartition with the single pair (predicate, leftSampler)
\* and rightSampler as the default.
FromPredicate(dom, predicate, left, right) ==
    [FromPartition(dom, << [pred |-> predicate, kind |-> left] >>, right)
       EXCEPT !.how = "fromPredicate"]

\* SplitSampler.fromPartition(domain, partition, defaultSampler) is called.
FromPartitionCall ==
    /\ built.how = "none"
    /\ \E dom \in SUBSET Atoms, partition \in Partitions, default \in Defaults :
         built' = FromPartition(dom, partition, default)
    /\ UNCHANGED <<obsVars, fieldVars, lazyVars, iterVars, splitVars>>

\* SplitSampler.fromPredicate(domain, predicate, leftSampler, rightSampler)
FromPredicateCall ==
    /\ built.how = "none"
    /\ \E dom \in SUBSET Atoms, predicate \in SUBSET Atoms,
          left \in Kinds, right \in Defaults :
         built' = FromPredicate(dom, predicate, left, right)
    /\ UNCHANGED <<obsVars, fieldVars, lazyVars, iterVars, splitVars>>

InitPart == ObsInit /\ DomainSamplerInit /\ LazyInit /\ NoIterator /\ NoComposite
NextPart == FromPartitionCall \/ FromPredicateCall
SpecPart == InitPart /\ [][NextPart]_vars

\* ------------------------------------------------- SplitSampler, constructed
\* SplitSampler.__init__(domain, samplers) with children of some kinds.
SplitSamplerInit ==
    /\ built.how = "none"
    /\ \E kinds \in SeqsUpTo(Kinds, MaxChildren) :
         LET ss == [i \in 1..Len(kinds) |-> Sampler(kinds[i], Atoms)]
         IN  /\ samplers' = ss
             /\ produced' = [i \in 1..Len(kinds) |-> 0]
             /\ built' = Built("init", "ok", Atoms, <<>>, "None", ss, <<>>, <<>>)
    /\ UNCHANGED <<obsVars, fieldVars, lazyVars, iterVars>>

\* A SplitSampler over the whole domain is made by fromPredicate; when that
\* fails there is no sampler.
SplitFromPredicate ==
    /\ built.how = "none"
    /\ \E predicate \in SUBSET Atoms, left \in Kinds, right \in Defaults :
         LET b == FromPredicate(Atoms, predicate, left, right)
         IN  /\ built' = b
             /\ samplers' = b.samplers
             /\ produced' = [i \in 1..Len(b.samplers) |-> 0]
    /\ UNCHANGED <<obsVars, fieldVars, lazyVars, iterVars>>

\* A driver calls nextSample(fb) on the composite: the inherited
\* DomainSampler.nextSample with SplitSampler's update and getSample.
SplitNextSampleCall ==
    /\ built.status = "ok"
    /\ calls < MaxCalls
    /\ \E fb \in Feedback, choice \in ChoiceRuns(samplers, 1) :
         LET g == SplitSampler_getSample(samplers, produced, choice)
             r == nextSample(last_sample, last_info, fb,
                     SplitSampler_update(samplers, last_sample, last_info, fb), g)
         IN  /\ last_sample' = r.last_sample
             /\ last_info' = r.last_info
             /\ produced' = g.produced
             /\ Observe(fb, r)
             /\ CountUpdate(r.updated)
    /\ UNCHANGED <<lazyVars, iterVars, samplers, built>>

InitSplit == ObsInit /\ DomainSamplerInit /\ LazyInit /\ NoIterator /\ NoComposite
NextSplit == SplitSamplerInit \/ SplitFromPredicate \/ SplitNextSampleCall
SpecSplit == InitSplit /\ [][NextSplit]_vars

\* ------------------------------------------- BoxSampler / DiscreteBoxSampler
\* Largest standardized dimension explored; a domain that is not
\* continuous-standardizable reports a negative dimension.
MaxDim == 2
Dimensions == (0 - MaxDim)..MaxDim
\* domain.standardizedIntervals: a collection of intervals, empty for a domain
\* that is not discrete-standardizable.
IntervalSeqs == SeqsUpTo({<<"lo", "hi">>}, MaxLen)
BoxDomains ==
    [standardizedDimension : Dimensions, standardizedIntervals : IntervalSeqs]

\* The standardized vectors a strategy's getVector produces.
Vectors == {<<"v1">>, <<"v2">>}
\* domain.unstandardize(vector) -> the domain-native point
Unstandardize(v) == <<"point", v>>

\* (a variant that also rejects dimension 0)
BoxSampler_initPositive(domain) ==
    [how |-> "BoxSampler",
     status |-> IF ~(domain.standardizedDimension > 0) THEN "RuntimeError" ELSE "ok",
     domain |-> domain]
\* BoxSampler.__init__: if not self.dimension >= 0: raise RuntimeError
BoxSampler_init(domain) ==
    [how |-> "BoxSampler",
     status |-> IF ~(domain.standardizedDimension >= 0) THEN "RuntimeError" ELSE "ok",
     domain |-> domain]

\* DiscreteBoxSampler.__init__: if not self.intervals: raise RuntimeError
DiscreteBoxSampler_init(domain) ==
    [how |-> "DiscreteBoxSampler",
     status |-> IF domain.standardizedIntervals = <<>> THEN "RuntimeError" ELSE "ok",
     domain |-> domain]

\* getVector of a strategy: it returns some (vector, info), or signals one of
\* the two sampling conditions; the abstract getVector raises
\* NotImplementedError.
GetVectorOutcomes ==
    {[out |-> "ret", sample |-> v, info |-> i] : v \in Vectors, i \in Infos}
    \cup
    {[out |-> e, sample |-> NoneV, info |-> NoneV] :
        e \in {"SamplingError", "TerminationException", "NotImplementedError"}}
GetVectorEv(gv) == Ev("getVector", 0, gv.sample, gv.info, gv.out)

\* (a variant that returns the vector as it is)
BoxSampler_getSampleRaw(gv) ==
    [out |-> gv.out, sample |-> gv.sample, info |-> gv.info,
     trace |-> << GetVectorEv(gv) >>]
\* BoxSampler.getSample: sample, info = self.getVector();
\* return self.domain.unstandardize(sample), info
BoxSampler_getSample(gv) ==
    IF gv.out = "ret"
    THEN [out |-> "ret", sample |-> Unstandardize(gv.sample), info |-> gv.info,
          trace |-> << GetVectorEv(gv),
                       Ev("unstandardize", 0, gv.sample, NoneV, "ret") >>]
    ELSE [out |-> gv.out, sample |-> NoneV, info |-> NoneV,
          trace |-> << GetVectorEv(gv) >>]

\* DiscreteBoxSampler.getSample: the same two statements.
DiscreteBoxSampler_getSample(gv) ==
    IF gv.out = "ret"
    THEN [out |-> "ret", sample |-> Unstandardize(gv.sample), info |-> gv.info,
          trace |-> << GetVectorEv(gv),
                       Ev("unstandardize", 0, gv.sample, NoneV, "ret") >>]
    ELSE [out |-> gv.out, sample |-> NoneV, info |-> NoneV,
          trace |-> << GetVectorEv(gv) >>]

\* BoxSampler.nextVector: the guarded update, then return self.getVector().
\* Nothing is stored in last_sample / last_info.
BoxSampler_nextVector(ls, li, fb, upd, gv) ==
    [out |-> gv.out, sample |-> gv.sample, info |-> gv.info,
     last_sample |-> ls, last_info |-> li,
     trace |-> << Ev("nextVector", 0, NoneV, NoneV, fb) >>
               \o (IF UpdateGuard(ls, fb) THEN upd ELSE <<>>)
               \o << GetVectorEv(gv) >>,
     updated |-> UpdateGuard(ls, fb)]

\* BoxSampler(domain) is constructed.
BoxSamplerNew ==
    /\ built.how = "none"
    /\ \E domain \in BoxDomains : built' = BoxSampler_init(domain)
    /\ UNCHANGED <<obsVars, fieldVars, lazyVars, iterVars, splitVars>>

\* DiscreteBoxSampler(domain) is constructed.
DiscreteBoxSamplerNew ==
    /\ built.how = "none"
    /\ \E domain \in BoxDomains : built' = DiscreteBoxSampler_init(domain)
    /\ UNCHANGED <<obsVars, fieldVars, lazyVars, iterVars, splitVars>>

\* A driver calls nextSample(fb) on the constructed sampler: the inherited
\* DomainSampler.nextSample with the class's getSample.
BoxNextSampleCall ==
    /\ built.status = "ok"
    /\ calls < MaxCalls
    /\ \E fb \in Feedback, gv \in GetVectorOutcomes :
         LET g == IF built.how = "BoxSampler"
                  THEN BoxSampler_getSample(gv)
                  ELSE DiscreteBoxSampler_getSample(gv)
             r == nextSample(last_sample, last_info, fb,
                             DomainSampler_update(last_sample, last_info, fb), g)
         IN  /\ last_sample' = r.last_sample
             /\ last_info' = r.last_info
             /\ Observe(fb, r)
             /\ CountUpdate(r.updated)
    /\ UNCHANGED <<lazyVars, iterVars, splitVars, built>>

\* A driver calls nextVector(fb) on the constructed BoxSampler.
BoxNextVectorCall ==
    /\ built.status = "ok"
    /\ built.how = "BoxSampler"
    /\ calls < MaxCalls
    /\ \E fb \in Feedback, gv \in GetVectorOutcomes :
         LET r == BoxSampler_nextVector(last_sample, last_info, fb,
                     DomainSampler_update(last_sample, last_info, fb), gv)
         IN  /\ last_sample' = r.last_sample
             /\ last_info' = r.last_info
             /\ Observe(fb, r)
             /\ CountUpdate(r.updated)
    /\ UNCHANGED <<lazyVars, iterVars, splitVars, built>>

InitBox == ObsInit /\ DomainSamplerInit /\ LazyInit /\ NoIterator /\ NoComposite
NextBox ==
    BoxSamplerNew \/ DiscreteBoxSamplerNew \/ BoxNextSampleCall \/ BoxNextVectorCall
SpecBox == InitBox /\ [][NextBox]_vars

\* ------------------------------------------------------------------ claims
UpdateEvents == SelectSeq(trace, LAMBDA e : e.ev = "update")
GetSampleEvents == SelectSeq(trace, LAMBDA e : e.ev = "getSample" /\ e.who = 0)

\* C1: in every sequence of nextSample calls, a call invokes update exactly
\* once, with the pair the preceding call returned and this call's feedback,
\* exactly when a previous sample exists and the feedback is not None; update
\* then completes before getSample of the same call; on the first call or
\* with feedback None update is not invoked; after a call that returns,
\* last_sample/last_info are the returned pair.
C1_UpdateThenProduce ==
    calls > 0 =>
      /\ (lastRet.out = "ret" /\ feedback # NoneV) <=> (UpdateEvents # <<>>)
      /\ UpdateEvents # <<>> =>
           UpdateEvents = << Ev("update", 0, lastRet.sample, lastRet.info, feedback) >>
      /\ (prev.out = "ret" /\ feedback # NoneV) <=>
           UpdateEvents = << Ev("update", 0, prev.sample, prev.info, feedback) >>
      /\ (calls = 1 \/ feedback = NoneV) => UpdateEvents = <<>>
      /\ Len(GetSampleEvents) = 1
      /\ \A j, k \in 1..Len(trace) :
           (trace[j].ev = "update" /\ trace[k].ev = "getSample") => j < k
      /\ result.out = "ret" =>
           (last_sample = result.sample /\ last_info = result.info)

\* A call with feedback that follows a call that returned, and returns itself.
C1_Witness ==
    /\ calls >= 2
    /\ prev.out = "ret"
    /\ feedback # NoneV
    /\ result.out = "ret"
    /\ Len(trace) = 2

\* C9: in the lazy-sequence view, a TerminationException from nextSample ends
\* the iteration normally and every later step yields nothing, while a
\* SamplingError from nextSample reaches the driver as SamplingError.
C9_TerminationIsNotAnError ==
    /\ result.out = "TerminationException" =>
         (seen = "StopIteration" /\ it.status = "done")
    /\ result.out = "SamplingError" => seen = "SamplingError"
    /\ it.why = "TerminationException" =>
         (seen = "StopIteration" /\ it.status = "done")
    /\ seen = "yield" => result.out = "ret"

\* A step taken after the step at which nextSample signalled termination.
C9_Witness ==
    /\ it.why = "TerminationException"
    /\ result = NoResult
    /\ prev.out = "TerminationException"
    /\ seen = "StopIteration"

\* The most recent call found the sequence exhausted: its send raised
\* StopIteration.
FoundExhausted == trace # <<>> /\ trace[1].ev = "send" /\ trace[1].x = "StopIteration"

\* C2: with repeat=False over a sequence of n values, the first n nextSample
\* calls return the n values in order, the (n+1)-th call raises
\* TerminationException, and so does every later call.
C2_FirstNThenTerminated ==
    (~repeat /\ calls > 0) =>
        IF calls <= Len(body)
        THEN result = Res("ret", body[calls], NoneV)
        ELSE result.out = "TerminationException"

\* C3: with repeat=True over a non-empty sequence, the nextSample call that
\* finds the sequence exhausted restarts it and returns the first sample of a
\* fresh run, whatever feedback it was given, and the sampler is running again.
C3_RestartSucceeds ==
    (repeat /\ Len(body) > 0 /\ FoundExhausted) =>
        /\ result = Res("ret", body[1], NoneV)
        /\ iterator = [status |-> "suspended", pos |-> 1]

\* The children's getSample calls of the most recent call, and all the calls
\* SplitSampler.getSample made (children's getSample, then rejoinPoints).
ChildGets == SelectSeq(trace, LAMBDA e : e.ev = "getSample" /\ e.who > 0)
Produces == SelectSeq(trace, LAMBDA e : e.ev \in {"getSample", "rejoinPoints"})
ChildUpdates == SelectSeq(trace, LAMBDA e : e.ev = "update" /\ e.who > 0)
NChildren == Len(samplers)

\* C4: a SplitSampler.getSample call with children C1..Cn calls each child's
\* getSample exactly once, in construction order, then rejoinPoints with
\* exactly those n sub-samples in that order, and returns the rejoined point
\* with an info list of n entries, entry i being the info Ci returned.
C4_GetSampleFansOutInOrder ==
    (built.status = "ok" /\ calls > 0 /\ result.out = "ret") =>
      /\ Len(ChildGets) = NChildren
      /\ \A i \in 1..NChildren : ChildGets[i].who = i /\ ChildGets[i].x = "ret"
      /\ Len(Produces) = NChildren + 1
      /\ Produces[NChildren + 1] =
           Ev("rejoinPoints", 0, [i \in 1..NChildren |-> ChildGets[i].s], NoneV, "ret")
      /\ \A i \in 1..NChildren : Produces[i] = ChildGets[i]
      /\ result.sample = RejoinPoints([i \in 1..NChildren |-> ChildGets[i].s])
      /\ result.info = [i \in 1..NChildren |-> ChildGets[i].i]

\* A composite of two children has returned a joined point.
C4_Witness ==
    /\ built.status = "ok"
    /\ NChildren = 2
    /\ result.out = "ret"
    /\ Len(ChildGets) = 2

\* C5: SplitSampler.update(sample, info, rho) visits the children in
\* construction order paired with the entries of info; a child whose entry is
\* None is not updated, every other child is updated exactly once with the
\* whole-domain sample, its own info entry and the same rho.
C5_UpdateFansOutSkippingNone ==
    (built.status = "ok" /\ lastRet.out = "ret" /\ feedback # NoneV) =>
      /\ \A i \in 1..NChildren :
           Len(SelectSeq(ChildUpdates, LAMBDA e : e.who = i))
             = (IF lastRet.info[i] # NoneV THEN 1 ELSE 0)
      /\ \A j \in 1..Len(ChildUpdates) :
           LET e == ChildUpdates[j]
           IN  /\ e.who \in 1..NChildren
               /\ e.s = lastRet.sample
               /\ e.i = lastRet.info[e.who]
               /\ e.x = feedback
      /\ \A j, k \in 1..Len(ChildUpdates) :
           j < k => ChildUpdates[j].who < ChildUpdates[k].who

\* An update over two children of which the first had info None.
C5_Witness ==
    /\ built.status = "ok"
    /\ NChildren = 2
    /\ lastRet.out = "ret"
    /\ feedback # NoneV
    /\ lastRet.info[1] = NoneV
    /\ lastRet.info[2] # NoneV
    /\ Len(ChildUpdates) = 1

\* The region predicate i of the partition of built matches: what the
\* predicates before it left of the domain, cut by predicate i.
RECURSIVE LeftBefore(_, _, _)
LeftBefore(dom, partition, i) ==
    IF i = 1 THEN dom
    ELSE LeftBefore(dom, partition, i - 1) \ partition[i - 1].pred
RegionOf(i) == LeftBefore(built.domain, built.partition, i) \cap built.partition[i].pred
Remainder == LeftBefore(built.domain, built.partition, Len(built.partition) + 1)
DefaultMade == \E j \in 1..Len(built.log) : built.log[j].op = "make" /\ built.log[j].i = 0

\* C6: after a successful fromPartition, len(samplersForPredicates) is
\* len(partition), plus one exactly when the default sampler was instantiated;
\* slot i holds the sub-sampler built for predicate i's region when that
\* region is non-empty and None otherwise; and samplers is exactly the
\* non-None entries of samplersForPredicates, in order.
C6_SamplersForPredicates ==
    (built.how = "fromPartition" /\ built.status = "ok") =>
      LET sfp == built.samplersForPredicates
          n == Len(built.partition)
      IN  /\ Len(sfp) = n + (IF DefaultMade THEN 1 ELSE 0)
          /\ \A i \in 1..n :
               sfp[i] = IF RegionOf(i) # {}
                        THEN Sampler(built.partition[i].kind, RegionOf(i))
                        ELSE NoSampler
          /\ DefaultMade => sfp[n + 1] = Sampler(built.default, Remainder)
          /\ built.samplers = SelectSeq(sfp, LAMBDA x : x # NoSampler)

\* Two predicates, the first matching nothing, and a default that fired.
C6_Witness ==
    /\ built.how = "fromPartition"
    /\ built.status = "ok"
    /\ Len(built.partition) = 2
    /\ built.samplersForPredicates[1] = NoSampler
    /\ built.samplersForPredicates[2] # NoSampler
    /\ Len(built.samplersForPredicates) = 3

\* C7: fromPartition fails with RuntimeError, returning no sampler, whenever
\* the region left after all predicates is non-empty and no default factory
\* was supplied; with a default factory it never raises this error.
C7_NonExhaustiveNeedsDefault ==
    built.how = "fromPartition" =>
      /\ (Remainder # {} /\ built.default = "None") =>
           (built.status = "RuntimeError" /\ built.samplers = <<>>)
      /\ built.default # "None" => built.status # "RuntimeError"

\* A non-exhaustive partition of two predicates without a default.
C7_Witness ==
    /\ built.how = "fromPartition"
    /\ built.status = "RuntimeError"
    /\ Len(built.partition) = 2
    /\ built.samplers = <<>>

\* C8: when a child signals TerminationException while the SplitSampler is
\* producing a sample, SplitSampler.nextSample raises TerminationException to
\* its caller, unchanged.
C8_TerminationPropagates ==
    (built.status = "ok" /\
     \E j \in 1..Len(trace) :
        trace[j].ev = "getSample" /\ trace[j].who > 0
          /\ trace[j].x = "TerminationException")
    => result.out = "TerminationException"

\* The second child terminated after the first produced, in a call with feedback.
C8_Witness ==
    /\ built.status = "ok"
    /\ Len(ChildGets) = 2
    /\ ChildGets[2].x = "TerminationException"
    /\ Len(ChildUpdates) > 0
    /\ result.out = "TerminationException"

\* C10: a SplitSampler built by fromPredicate where both the matching region
\* and the remainder are non-empty has exactly 2 sub-samplers; with a box
\* sampler on the left and, on the right, an IteratorSampler that supplies
\* only a sequence body, consecutive nextSample(None) calls each return a
\* joined point without a fault (here: whenever the box child produced).
C10_BoxAndIteratorComposite ==
    (/\ built.how = "fromPredicate"
     /\ built.status = "ok"
     /\ built.domain \cap built.partition[1].pred # {}
     /\ built.domain \ built.partition[1].pred # {})
    => /\ NChildren = 2
       /\ (/\ samplers[1].kind = "box"
           /\ samplers[2].kind = "iterator"
           /\ calls > 0
           /\ feedback = NoneV
           /\ Len(ChildGets) > 0
           /\ ChildGets[1].x = "ret")
          => result.out = "ret"

\* C14: over any sequence of nextSample calls, those in which getSample raises
\* and the driver calls again with feedback included, update is invoked at
\* most once for each produced pair.
C14_PairUpdatedAtMostOnce == timesUpdated <= 1

\* C20: when getSample raises inside nextSample, last_sample and last_info are
\* left as they were before the call; they always hold the pair returned by
\* the most recent successful nextSample call, and last_sample is None when
\* there has been none.
C20_FailedCallKeepsLastPair ==
    LET latest == IF result.out = "ret" THEN result ELSE lastRet
    IN  /\ latest.out = "ret" =>
             (last_sample = latest.sample /\ last_info = latest.info)
        /\ latest.out # "ret" => (last_sample = NoneV /\ last_info = Unset)

\* A call whose getSample raised after an earlier call had returned a pair.
C20_Witness ==
    /\ calls >= 2
    /\ result.out \in {"SamplingError", "TerminationException", "NotImplementedError"}
    /\ lastRet.out = "ret"
    /\ last_sample = lastRet.sample


\* C12: every nextSample call of an IteratorSampler either returns a
\* (sample, info) result or raises TerminationException or SamplingError; no
\* other exception escapes, whatever the body, the repeat setting and the
\* feedback, the very first call included.
C12_OnlyTwoSignals ==
    calls > 0 => result.out \in {"ret", "TerminationException", "SamplingError"}

\* C19: without repetition, when the body resumes from its k-th yield it is
\* in the (k+1)-th nextSample call, it receives exactly that call's feedback,
\* and what the call returns is the body's (k+1)-th yield.
C19_ResumesWithFeedback ==
    (~repeat /\ calls > 0 /\ trace[1].i # <<>>) =>
        LET k == IF trace[1].x = "yield" THEN iterator.pos - 1 ELSE iterator.pos
        IN  /\ calls = k + 1
            /\ trace[1].i = <<feedback>>
            /\ trace[1].x = "yield" =>
                   (result.out = "ret" /\ result.sample = body[k + 1])


\* The calls fromPartition made, in order.
Log == built.log
Constructed == built.how \in {"fromPartition", "fromPredicate"}
\* What is left of the region a logged partition call was applied to.
LeftAfter(j) == Log[j].arg \ built.partition[Log[j].i].pred

\* C17: during fromPartition no sampler is constructed over an empty region:
\* each predicate's factory is invoked at most once and only with its
\* non-empty matched region, the default factory only with a non-empty
\* remainder, and once a partition step leaves nothing no later predicate is
\* applied and no later factory is invoked.
C17_NoSamplerOverEmptyRegion ==
    Constructed =>
      /\ \A j \in 1..Len(Log) :
           Log[j].op = "make" =>
             /\ Log[j].arg # {}
             /\ Log[j].arg = IF Log[j].i = 0 THEN Remainder ELSE RegionOf(Log[j].i)
             /\ \A k \in 1..Len(Log) :
                  (Log[k].op = "make" /\ Log[k].i = Log[j].i) => k = j
      /\ \A j \in 1..Len(Log) :
           (Log[j].op = "partition" /\ LeftAfter(j) = {}) =>
              \A k \in (j + 1)..Len(Log) :
                 /\ k = j + 1
                 /\ Log[k] = Made("make", Log[j].i, Log[j].arg \cap built.partition[Log[j].i].pred)

\* Two predicates and a default factory, the first predicate taking the whole
\* domain: one partition call and one factory call were made.
C17_Witness ==
    /\ built.how = "fromPartition"
    /\ built.status = "ok"
    /\ Len(built.partition) = 2
    /\ built.default # "None"
    /\ Log = << Made("partition", 1, built.domain), Made("make", 1, built.domain) >>

\* C18: every SplitSampler returned by fromPartition or fromPredicate holds at
\* least one sub-sampler, and an input whose partitioning gives no sub-sampler
\* (an empty domain) makes the construction fail.
C18_AtLeastOneSubSampler ==
    Constructed =>
      /\ built.status = "ok" =>
           (Len(built.samplers) >= 1 /\
            \A j \in 1..Len(built.samplers) : built.samplers[j] # NoSampler)
      /\ ((\A i \in 1..Len(built.partition) : RegionOf(i) = {}) /\ Remainder = {})
           => (built.status = "AssertionError" /\ built.samplers = <<>>)

\* An empty domain, two predicates and a default factory: the assertion failed.
C18_Witness ==
    /\ built.how = "fromPartition"
    /\ built.domain = {}
    /\ Len(built.partition) = 2
    /\ built.default # "None"
    /\ built.status = "AssertionError"


\* Child i's getSample returned in the most recent call.
ReturnedNow(i) ==
    \E g \in 1..Len(ChildGets) : ChildGets[g].who = i /\ ChildGets[g].x = "ret"
\* The info child i returned during the preceding call's production, when
\* that call returned: the info of the child's last production before the
\* most recent call.
InfoBefore(i) ==
    <<"info", i, produced[i] - (IF ReturnedNow(i) THEN 1 ELSE 0)>>

IsBox == built.how \in {"BoxSampler", "DiscreteBoxSampler"}
ViaNextVector == trace # <<>> /\ trace[1].ev = "nextVector"
GetVectorEvents == SelectSeq(trace, LAMBDA e : e.ev = "getVector")
UnstandardizeEvents == SelectSeq(trace, LAMBDA e : e.ev = "unstandardize")

\* C11: every getSample call of a BoxSampler or DiscreteBoxSampler calls
\* getVector exactly once; the sample returned is domain.unstandardize of the
\* vector getVector returned, and the info returned is getVector's info.
C11_GetSampleUnstandardizes ==
    (IsBox /\ calls > 0 /\ ~ViaNextVector) =>
      /\ Len(GetVectorEvents) = 1
      /\ result.out = GetVectorEvents[1].x
      /\ result.out = "ret" =>
           /\ result.sample = Unstandardize(GetVectorEvents[1].s)
           /\ result.info = GetVectorEvents[1].i
           /\ UnstandardizeEvents =
                << Ev("unstandardize", 0, GetVectorEvents[1].s, NoneV, "ret") >>

\* A DiscreteBoxSampler returned a sample with an info.
C11_Witness ==
    /\ built.how = "DiscreteBoxSampler"
    /\ calls > 0
    /\ result.out = "ret"
    /\ result.info # NoneV
    /\ Len(GetVectorEvents) = 1

\* C13: BoxSampler construction raises RuntimeError when the domain's
\* standardizedDimension is negative and succeeds for every dimension >= 0;
\* DiscreteBoxSampler construction raises RuntimeError when the domain's
\* standardizedIntervals is empty and succeeds otherwise; after a failed
\* construction there is no sampler to call.
C13_LeafNeedsStandardization ==
    /\ built.how = "BoxSampler" =>
         built.status = IF built.domain.standardizedDimension < 0
                        THEN "RuntimeError" ELSE "ok"
    /\ built.how = "DiscreteBoxSampler" =>
         built.status = IF Len(built.domain.standardizedIntervals) = 0
                        THEN "RuntimeError" ELSE "ok"
    /\ (IsBox /\ built.status # "ok") => (calls = 0 /\ last_sample = NoneV)

\* A BoxSampler over a domain of dimension 0 was constructed and used.
C13_Witness ==
    /\ built.how = "BoxSampler"
    /\ built.domain.standardizedDimension = 0
    /\ built.status = "ok"
    /\ calls > 0
    /\ result.out = "ret"

\* C15: a nextVector call with feedback that follows a call that returned
\* invokes update for the result that call produced, before its getVector,
\* and returns the raw (vector, info) of getVector.
C15_NextVectorUpdatesFirst ==
    (IsBox /\ ViaNextVector /\ calls >= 2 /\ prev.out = "ret" /\ feedback # NoneV) =>
      /\ UpdateEvents = << Ev("update", 0, prev.sample, prev.info, feedback) >>
      /\ \A j, k \in 1..Len(trace) :
           (trace[j].ev = "update" /\ trace[k].ev = "getVector") => j < k
      /\ result.out = "ret" =>
           (result.sample = GetVectorEvents[1].s /\ result.info = GetVectorEvents[1].i)

=============================================================================
